---- MODULE Spec2Model ----
(***************************************************************************)
(* Record store of the replay catalog (src/core/database.py) and the       *)
(* recycle-bin dialog and retention sweep that work on it                   *)
(* (src/ui/dialogs/utility_dialogs.py, src/ui/main_window.py).              *)
(*                                                                         *)
(* Text values are sequences of character codes, so that the store's text  *)
(* comparison (deleted_date < ?) is the byte-wise comparison SQLite makes.  *)
(* A table is the sequence of its rows in rowid order; a row is a function  *)
(* from column name to value.                                               *)
(***************************************************************************)
EXTENDS Integers, Sequences, FiniteSets, TLC

\* ---------------------------------------------------------------- bounds

\* Rows the two tables hold together, at most.
MaxRows == 2
\* Days the clock advances, at most, after the program started.
MaxElapsed == 31
\* The clock at program start: day of EpochYear, 0-based (348 = December 15).
StartDay == 348
EpochYear == 2025
\* Steps of the clock, in days.
TickDays == {29, 30, 31}
\* Retention of the sweep, in days (cleanup_recycle_bin passes days=30).
SweepDays == 30

\* ------------------------------------------------------------------ text

\* A NULL column value: a one-element sequence holding what no character is.
NULL == <<-1>>

Digit(n) == 48 + n
Pad2(n) == <<Digit(n \div 10), Digit(n % 10)>>
Pad4(n) == <<Digit(n \div 1000), Digit((n \div 100) % 10), Digit((n \div 10) % 10), Digit(n % 10)>>
Dash == <<45>>
Space == <<32>>
Colon == <<58>>

\* Byte-wise order of two texts, as memcmp followed by the length (SQLite's
\* BINARY collation): a proper prefix is smaller.
RECURSIVE TextLess(_, _)
TextLess(a, b) ==
    IF b = <<>> THEN FALSE
    ELSE IF a = <<>> THEN TRUE
    ELSE IF Head(a) # Head(b) THEN Head(a) < Head(b)
    ELSE TextLess(Tail(a), Tail(b))

\* The SQL comparison  x < y  in a WHERE clause: NULL never satisfies it.
SqlLess(x, y) == x # NULL /\ y # NULL /\ TextLess(x, y)

\* -------------------------------------------------------------- calendar

IsLeap(y) == (y % 4 = 0 /\ y % 100 # 0) \/ y % 400 = 0

DaysInMonth(m, y) ==
    IF m = 2 THEN (IF IsLeap(y) THEN 29 ELSE 28)
    ELSE IF m \in {4, 6, 9, 11} THEN 30 ELSE 31

\* The calendar date <<year, month, day>> of day n (0-based) of month m of year y.
RECURSIVE DateFrom(_, _, _)
DateFrom(y, m, n) ==
    IF n < DaysInMonth(m, y) THEN <<y, m, n + 1>>
    ELSE IF m = 12 THEN DateFrom(y + 1, 1, n - DaysInMonth(m, y))
    ELSE DateFrom(y, m + 1, n - DaysInMonth(m, y))

\* datetime.now() - timedelta(days): the calendar date of clock value t, days back.
DateOf(t, days) == DateFrom(EpochYear, 1, StartDay + t - days)

\* The clock moves in whole days, so the time of day is the one of program start.
HourOfDay == 12

\* strftime("%m-%d-%Y %H:%M:%S")
Strftime(date) ==
    Pad2(date[2]) \o Dash \o Pad2(date[3]) \o Dash \o Pad4(date[1]) \o Space
        \o Pad2(HourOfDay) \o Colon \o Pad2(0) \o Colon \o Pad2(0)

\* ------------------------------------------------------------ the store

\* The columns of the two tables, without the surrogate key id (the position
\* of a row in its table stands for it: AUTOINCREMENT ids grow with insertion).
ReplaysColumns ==
    {"video_link", "file_name", "timestamp", "ufc", "extended_desc", "recorded",
     "renamed_filename", "date_added", "tags"}
RecycleBinColumns == ReplaysColumns \cup {"deleted_date"}

\* uuid.uuid4(): the first four hexadecimal digits of the values it may draw.
Uuid4Prefixes == {<<51, 102, 57, 97>>, <<51, 102, 57, 98>>}

Upper(c) == IF c \in 97..122 THEN c - 32 ELSE c
UpperText(s) == [i \in 1..Len(s) |-> Upper(s[i])]

\* f"UFC-{str(uuid.uuid4())[:4].upper()}"
GenerateUfc(uuid) == <<85, 70, 67, 45>> \o UpperText(uuid)

UFCS == {GenerateUfc(u) : u \in Uuid4Prefixes}

\* Values a caller supplies.
FileNames == {<<102>>}
Timestamps == {<<116>>}
VideoLinks == {<<108>>}
Descriptions == {<<100>>}
TagsInputs == {<<>>, <<65>>, <<49>>}

VARIABLES
    replays,       \* table replays
    recycle_bin,   \* table recycle_bin
    now,           \* days since the program started (datetime.now())
    dialog_open,   \* a RecycleBinDialog is executing
    dialog_rows,   \* the ufc column of the dialog's table, in row order
    softDeleted,   \* history, per ufc: <<row, clock>> of its last move to the bin
    last           \* history: the last operation on the store and its outcome

vars == <<replays, recycle_bin, now, dialog_open, dialog_rows, softDeleted, last>>

Elements(seq) == {seq[i] : i \in 1..Len(seq)}
Ufcs(table) == {table[i].ufc : i \in 1..Len(table)}
RowsOf(table, ufc) == {i \in 1..Len(table) : table[i].ufc = ufc}
Without(table, ufc) == SelectSeq(table, LAMBDA r : r.ufc # ufc)

\* The row an INSERT with a column list builds: the values go to the columns
\* by position, a column that is not listed is NULL.
InsertedRow(columns, names, values) ==
    [c \in columns |->
        IF \E i \in 1..Len(names) : names[i] = c
        THEN values[CHOOSE i \in 1..Len(names) : names[i] = c]
        ELSE NULL]

\* ufc TEXT UNIQUE: the INSERT of row raises sqlite3.IntegrityError.
UniqueViolated(table, row) == row.ufc # NULL /\ row.ufc \in Ufcs(table)

\* The history of the rows that are in the bin (a row that leaves it is forgotten).
Remembered(bin) == [u \in UFCS |-> IF u \in Ufcs(bin) THEN softDeleted[u] ELSE <<>>]

Outcome(op, ufcs, outcome, ret, count) ==
    [op |-> op, ufcs |-> ufcs, outcome |-> outcome, ret |-> ret, count |-> count]

\* The operations of the store are called from handlers of the main window;
\* RecycleBinDialog is modal, so none of them runs while it executes (the
\* timer's slot does). A handler's paths that change nothing (a "No" answer,
\* an empty selection) are stuttering steps and have no action of their own.

\* A new catalog: _initialize_db has created the empty tables.
Init ==
    /\ replays = <<>>
    /\ recycle_bin = <<>>
    /\ now = 0
    /\ dialog_open = FALSE
    /\ dialog_rows = <<>>
    /\ softDeleted = [u \in UFCS |-> <<>>]
    /\ last = Outcome("init", <<>>, "returned", NULL, 0)

\* add_replay with two of the bound values in each other's place.
add_replay_misbound(file_name, timestamp, video_link, description, tags, uuid) ==
    LET ufc == GenerateUfc(uuid)
        date_added == Strftime(DateOf(now, 0))
        row == InsertedRow(ReplaysColumns,
                   <<"video_link", "file_name", "timestamp", "ufc",
                     "extended_desc", "recorded", "date_added", "tags">>,
                   <<video_link, file_name, timestamp, ufc, description, 0,
                     tags, date_added>>)
    IN  /\ ~dialog_open
        /\ Len(replays) + Len(recycle_bin) < MaxRows
        /\ IF UniqueViolated(replays, row)
           THEN /\ replays' = replays
                /\ last' = Outcome("add_replay", <<ufc>>, "IntegrityError", NULL, 0)
           ELSE /\ replays' = Append(replays, row)
                /\ last' = Outcome("add_replay", <<ufc>>, "returned", ufc, 0)
        /\ UNCHANGED <<recycle_bin, now, dialog_open, dialog_rows, softDeleted>>

\* ReplayDatabase.add_replay
add_replay(file_name, timestamp, video_link, description, tags, uuid) ==
    LET ufc == GenerateUfc(uuid)
        date_added == Strftime(DateOf(now, 0))
        row == InsertedRow(ReplaysColumns,
                   <<"video_link", "file_name", "timestamp", "ufc",
                     "extended_desc", "recorded", "date_added", "tags">>,
                   <<video_link, file_name, timestamp, ufc, description, 0,
                     date_added, tags>>)
    IN  /\ ~dialog_open
        /\ Len(replays) + Len(recycle_bin) < MaxRows
        /\ IF UniqueViolated(replays, row)
           THEN /\ replays' = replays
                /\ last' = Outcome("add_replay", <<ufc>>, "IntegrityError", NULL, 0)
           ELSE /\ replays' = Append(replays, row)
                /\ last' = Outcome("add_replay", <<ufc>>, "returned", ufc, 0)
        /\ UNCHANGED <<recycle_bin, now, dialog_open, dialog_rows, softDeleted>>

AddReplay ==
    \E f \in FileNames, t \in Timestamps, l \in VideoLinks, d \in Descriptions,
       g \in TagsInputs, u \in Uuid4Prefixes :
        add_replay(f, t, l, d, g, u)

\* The clock advances.
Tick ==
    \E d \in TickDays :
        /\ now + d <= MaxElapsed
        /\ now' = now + d
        /\ UNCHANGED <<replays, recycle_bin, dialog_open, dialog_rows, softDeleted, last>>

\* Keyword arguments a caller passes to update_replay: <<field, value>> pairs.
UpdateInputs ==
    { <<>>,
      << <<"recorded", 1>> >>,
      << <<"tags", <<65>> >> >>,
      << <<"renamed_filename", <<110>> >> >>,
      << <<"date_added", <<120>> >> >> }

valid_fields == {"file_name", "timestamp", "video_link", "extended_desc", "recorded", "tags"}

\* The SET clauses update_replay builds from its keyword arguments.
Updates(kwargs) == SelectSeq(kwargs, LAMBDA kv : kv[1] \in valid_fields)

\* UPDATE replays SET ... WHERE ufc = ?
UpdatedRow(row, updates) ==
    [c \in DOMAIN row |->
        IF \E i \in 1..Len(updates) : updates[i][1] = c
        THEN updates[CHOOSE i \in 1..Len(updates) : updates[i][1] = c][2]
        ELSE row[c]]

\* update_replay without its early return: with no SET clause the statement
\* "UPDATE replays SET  WHERE ufc = ?" is malformed.
update_replay_unguarded(ufc, kwargs) ==
    LET updates == Updates(kwargs)
    IN  /\ ~dialog_open
        /\ IF updates = <<>>
           THEN /\ replays' = replays
                /\ last' = Outcome("update_replay", <<ufc>>, "OperationalError", NULL, 0)
           ELSE /\ replays' = [i \in 1..Len(replays) |->
                                   IF replays[i].ufc = ufc
                                   THEN UpdatedRow(replays[i], updates)
                                   ELSE replays[i]]
                /\ last' = Outcome("update_replay", <<ufc>>, "returned", NULL, Len(updates))
        /\ UNCHANGED <<recycle_bin, now, dialog_open, dialog_rows, softDeleted>>

\* ReplayDatabase.update_replay
update_replay(ufc, kwargs) ==
    LET updates == Updates(kwargs)
    IN  /\ ~dialog_open
        /\ IF updates = <<>>
           THEN replays' = replays
           ELSE replays' = [i \in 1..Len(replays) |->
                               IF replays[i].ufc = ufc
                               THEN UpdatedRow(replays[i], updates)
                               ELSE replays[i]]
        /\ last' = Outcome("update_replay", <<ufc>>, "returned", NULL, Len(updates))
        /\ UNCHANGED <<recycle_bin, now, dialog_open, dialog_rows, softDeleted>>

UpdateReplay == \E ufc \in UFCS, kwargs \in UpdateInputs : update_replay(ufc, kwargs)

\* The tuple a SELECT of these columns fetches from a row.
Fetched(row, names) == [i \in 1..Len(names) |-> row[names[i]]]

\* The SELECT list with its last two columns exchanged.
MovedColumnsTagsFirst ==
    <<"video_link", "file_name", "timestamp", "ufc", "extended_desc", "recorded",
      "renamed_filename", "tags", "date_added">>

MovedColumns ==
    <<"video_link", "file_name", "timestamp", "ufc", "extended_desc", "recorded",
      "renamed_filename", "date_added", "tags">>

\* _move_to_recycle_bin with the DELETE committed before the INSERT is tried.
move_to_recycle_bin_deletes_first(ufc) ==
    LET deleted_date == Strftime(DateOf(now, 0))
        found == RowsOf(replays, ufc)
        data == Fetched(replays[CHOOSE i \in found : \A j \in found : i <= j], MovedColumns)
        row == InsertedRow(RecycleBinColumns,
                   <<"video_link", "file_name", "timestamp", "ufc", "extended_desc",
                     "recorded", "renamed_filename", "date_added", "deleted_date",
                     "tags">>,
                   data \o <<deleted_date>>)
    IN  IF found = {}
        THEN /\ last' = Outcome("delete_replay", <<ufc>>, "returned", NULL, 0)
             /\ UNCHANGED <<replays, recycle_bin, softDeleted>>
        ELSE IF UniqueViolated(recycle_bin, row)
        THEN /\ last' = Outcome("delete_replay", <<ufc>>, "IntegrityError", NULL, 0)
             /\ replays' = Without(replays, ufc)
             /\ UNCHANGED <<recycle_bin, softDeleted>>
        ELSE /\ recycle_bin' = Append(recycle_bin, row)
             /\ replays' = Without(replays, ufc)
             /\ softDeleted' = [softDeleted EXCEPT
                    ![ufc] = <<replays[CHOOSE i \in found : \A j \in found : i <= j], now>>]
             /\ last' = Outcome("delete_replay", <<ufc>>, "returned", NULL, 1)

\* ReplayDatabase._move_to_recycle_bin
move_to_recycle_bin(ufc) ==
    LET deleted_date == Strftime(DateOf(now, 0))
        found == RowsOf(replays, ufc)
        data == Fetched(replays[CHOOSE i \in found : \A j \in found : i <= j], MovedColumns)
        row == InsertedRow(RecycleBinColumns,
                   <<"video_link", "file_name", "timestamp", "ufc", "extended_desc",
                     "recorded", "renamed_filename", "date_added", "deleted_date",
                     "tags">>,
                   data \o <<deleted_date>>)
    IN  IF found = {}
        THEN /\ last' = Outcome("delete_replay", <<ufc>>, "returned", NULL, 0)
             /\ UNCHANGED <<replays, recycle_bin, softDeleted>>
        ELSE IF UniqueViolated(recycle_bin, row)
        THEN /\ last' = Outcome("delete_replay", <<ufc>>, "IntegrityError", NULL, 0)
             /\ UNCHANGED <<replays, recycle_bin, softDeleted>>
        ELSE /\ recycle_bin' = Append(recycle_bin, row)
             /\ replays' = Without(replays, ufc)
             /\ softDeleted' = [softDeleted EXCEPT
                    ![ufc] = <<replays[CHOOSE i \in found : \A j \in found : i <= j], now>>]
             /\ last' = Outcome("delete_replay", <<ufc>>, "returned", NULL, 1)

\* ReplayDatabase.delete_replay
delete_replay(ufc, permanent) ==
    /\ ~dialog_open
    /\ IF permanent
       THEN /\ replays' = Without(replays, ufc)
            /\ last' = Outcome("delete_replay_permanent", <<ufc>>, "returned", NULL, 0)
            /\ UNCHANGED <<recycle_bin, softDeleted>>
       ELSE move_to_recycle_bin(ufc)
    /\ UNCHANGED <<now, dialog_open, dialog_rows>>

DeleteReplay == \E ufc \in UFCS, permanent \in BOOLEAN : delete_replay(ufc, permanent)

\* ReplayDatabase.auto_cleanup_recycle_bin
auto_cleanup_recycle_bin(days) ==
    LET threshold == Strftime(DateOf(now, days))
    IN  recycle_bin' = SelectSeq(recycle_bin, LAMBDA r : ~SqlLess(r.deleted_date, threshold))

\* MainWindow.cleanup_recycle_bin, the slot of recycle_timer; a timer fires in
\* the event loop of a dialog too.
CleanupRecycleBin ==
    /\ auto_cleanup_recycle_bin(SweepDays)
    /\ last' = Outcome("cleanup_recycle_bin", <<>>, "returned", NULL,
                       Len(recycle_bin) - Len(recycle_bin'))
    /\ softDeleted' = Remembered(recycle_bin')
    /\ UNCHANGED <<replays, now, dialog_open, dialog_rows>>

\* ------------------------------------------------------ recycle-bin dialog

\* The order of ORDER BY on a text column: NULL comes before every text.
OrderLess(x, y) == IF x = NULL THEN y # NULL ELSE (y # NULL /\ TextLess(x, y))

\* ORDER BY deleted_date DESC: r goes before the first row whose key is smaller
\* (rows of equal key keep the order of the table scan).
InsertDesc(sorted, r) ==
    LET smaller == {i \in 1..Len(sorted) : OrderLess(sorted[i].deleted_date, r.deleted_date)}
        at == IF smaller = {} THEN Len(sorted) + 1
              ELSE CHOOSE i \in smaller : \A j \in smaller : i <= j
    IN  SubSeq(sorted, 1, at - 1) \o <<r>> \o SubSeq(sorted, at, Len(sorted))

RECURSIVE OrderByDeletedDateDesc(_)
OrderByDeletedDateDesc(rows) ==
    IF rows = <<>> THEN <<>>
    ELSE InsertDesc(OrderByDeletedDateDesc(SubSeq(rows, 1, Len(rows) - 1)), rows[Len(rows)])

\* RecycleBinDialog.load_recycled_items: column 1 of the dialog's table.
LoadedRecycledItems(bin) ==
    LET rows == OrderByDeletedDateDesc(bin)
    IN  [i \in 1..Len(rows) |-> rows[i].ufc]

\* MainWindow._show_recycle_bin, up to dialog.exec()
ShowRecycleBin ==
    /\ ~dialog_open
    /\ dialog_open' = TRUE
    /\ dialog_rows' = LoadedRecycledItems(recycle_bin)
    /\ UNCHANGED <<replays, recycle_bin, now, softDeleted, last>>

\* The dialog ends (Close, or the window's close button).
CloseRecycleBin ==
    /\ dialog_open
    /\ dialog_open' = FALSE
    /\ dialog_rows' = <<>>
    /\ UNCHANGED <<replays, recycle_bin, now, softDeleted, last>>

\* ufc_list of the selected rows (a set of row numbers, read in ascending order).
RECURSIVE UfcList(_, _)
UfcList(rows, selected) ==
    IF rows = <<>> THEN <<>>
    ELSE UfcList(SubSeq(rows, 1, Len(rows) - 1), selected)
            \o (IF Len(rows) \in selected THEN <<rows[Len(rows)]>> ELSE <<>>)

Selections == SUBSET (1..Len(dialog_rows)) \ {{}}

\* The loop of RecycleBinDialog._restore_items inside its transaction:
\* <<replays, recycle_bin, raised>> after the rows of ufc_list, in order.
RECURSIVE RestoreLoop(_, _, _)
RestoreLoop(active, bin, ufc_list) ==
    IF ufc_list = <<>> THEN <<active, bin, FALSE>>
    ELSE
        LET ufc == Head(ufc_list)
            found == RowsOf(bin, ufc)
            data == Fetched(bin[CHOOSE i \in found : \A j \in found : i <= j], MovedColumns)
            row == InsertedRow(ReplaysColumns, MovedColumns, data)
        IN  IF found = {} THEN RestoreLoop(active, bin, Tail(ufc_list))
            ELSE IF UniqueViolated(active, row) THEN <<active, bin, TRUE>>
            ELSE RestoreLoop(Append(active, row), Without(bin, ufc), Tail(ufc_list))

\* RecycleBinDialog._restore_items: an exception leaves the with-block, which
\* rolls the transaction back; the handler shows it and returns.
restore_items(ufc_list) ==
    LET done == RestoreLoop(replays, recycle_bin, ufc_list)
    IN  IF done[3]
        THEN /\ UNCHANGED <<replays, recycle_bin>>
             /\ last' = Outcome("_restore_selected", ufc_list, "IntegrityError", NULL,
                                Len(ufc_list))
        ELSE /\ replays' = done[1]
             /\ recycle_bin' = done[2]
             /\ last' = Outcome("_restore_selected", ufc_list, "returned", NULL,
                                Len(ufc_list))

\* RecycleBinDialog._restore_selected, confirmed with Yes; last.count is the
\* number of items its closing message reports as restored.
restore_selected(selected) ==
    /\ dialog_open
    /\ restore_items(UfcList(dialog_rows, selected))
    /\ dialog_rows' = LoadedRecycledItems(recycle_bin')
    /\ softDeleted' = Remembered(recycle_bin')
    /\ UNCHANGED <<now, dialog_open>>

RestoreSelected == \E selected \in Selections : restore_selected(selected)

\* RecycleBinDialog._delete_permanently with _delete_items, confirmed with Yes.
DeletePermanently ==
    /\ dialog_open
    /\ \E selected \in Selections :
          LET ufc_list == UfcList(dialog_rows, selected)
          IN  /\ recycle_bin' = SelectSeq(recycle_bin,
                     LAMBDA r : \A i \in 1..Len(ufc_list) : r.ufc # ufc_list[i])
              /\ dialog_rows' = LoadedRecycledItems(recycle_bin')
              /\ last' = Outcome("_delete_permanently", ufc_list, "returned", NULL,
                                 Len(ufc_list))
    /\ softDeleted' = Remembered(recycle_bin')
    /\ UNCHANGED <<replays, now, dialog_open>>

\* RecycleBinDialog._empty_recycle_bin, confirmed with Yes.
EmptyRecycleBin ==
    /\ dialog_open
    /\ Len(recycle_bin) # 0
    /\ recycle_bin' = <<>>
    /\ dialog_rows' = LoadedRecycledItems(recycle_bin')
    /\ last' = Outcome("_empty_recycle_bin", <<>>, "returned", NULL, Len(recycle_bin))
    /\ softDeleted' = Remembered(recycle_bin')
    /\ UNCHANGED <<replays, now, dialog_open>>

\* ------------------------------------------- the state beside the store

\* An Optional[...] value: None is the empty tuple, a value v is <<v>>.
None == <<>>
Some(v) == <<v>>

VARIABLES
    table_rows,    \* ReplayTable._model: per loaded record, its items by column
    proxy,         \* the fields of ReplayTable.proxy_model (ReplaySortFilterProxy)
    window,        \* MainWindow: the search bar's text and the filter attributes
    call,          \* history: the last application of a name sanitizer
    files,         \* the names that exist in the directory of a file being renamed
    rename,        \* the frame of _generate_renamed_path: position, counter, new_path
    sweeper,       \* recycle_timer, and what became of cleanup_recycle_bin's failures
    db_info,       \* the rows of the table db_info: their unique_db_code
    codes_read,    \* history: the catalog codes the add and rename flows have read
    preferences    \* Preferences: self.data, the content of prefs_file; history

aside == <<db_info, codes_read, preferences>>
beside == <<table_rows, proxy, window, call, files, rename, sweeper, aside>>
allvars == <<vars, beside>>

\* ------------------------------------------------------------ preferences

\* A Python value of the preferences document is held with its type: None
\* is <<"NoneType", <<>>>>, a bool <<"bool", b>>, a str <<"str", codes>> and a
\* list <<"list", items>>.
PyNone == <<"NoneType", <<>>>>

\* Preferences.DEFAULT_PREFS; the alt characters are 'Dhalsim', 'Elena', 'Cammy'.
DEFAULT_PREFS ==
    [main_character |-> PyNone,
     main_character_path |-> PyNone,
     rank_badge_path |-> PyNone,
     alt_characters |->
         <<"list", <<<<"str", <<68,104,97,108,115,105,109>>>>,
                      <<"str", <<69,108,101,110,97>>>>,
                      <<"str", <<67,97,109,109,121>>>>>>>>,
     dark_mode |-> <<"bool", FALSE>>,
     active_db_path |-> PyNone,
     character_name_override |-> PyNone,
     rename_character |-> PyNone]

\* d[key] = value on a dict.
SetItem(d, key, value) ==
    [k \in DOMAIN d \cup {key} |-> IF k = key THEN value ELSE d[k]]

\* dict.update: the keys of other are added to d or replace its values.
DictUpdate(d, other) ==
    [k \in DOMAIN d \cup DOMAIN other |-> IF k \in DOMAIN other THEN other[k] ELSE d[k]]

\* json.dump(self.data, f, indent=2), as the tokens of the JSON text (the
\* white space of indent=2 is between tokens): the object with one member per
\* key; None is written null, a bool true or false, a str a string and a list
\* an array of its items.
json_dump(data) ==
    LET RECURSIVE Value(_), Items(_), Members(_)
        Value(value) ==
            CASE value[1] = "NoneType" -> << <<"null">> >>
              [] value[1] = "bool" -> << <<IF value[2] THEN "true" ELSE "false">> >>
              [] value[1] = "str" -> << <<"string", value[2]>> >>
              [] value[1] = "list" -> << <<"[">> >> \o Items(value[2]) \o << <<"]">> >>
        Items(items) ==
            IF items = <<>> THEN <<>>
            ELSE Value(Head(items))
                   \o (IF Len(items) > 1 THEN << <<",">> >> ELSE <<>>)
                   \o Items(Tail(items))
        Members(keys) ==
            IF keys = {} THEN <<>>
            ELSE LET key == CHOOSE k \in keys : TRUE
                 IN  << <<"string", key>>, <<":">> >>
                       \o Value(data[key])
                       \o (IF keys # {key} THEN << <<",">> >> ELSE <<>>)
                       \o Members(keys \ {key})
    IN  << <<"{">> >> \o Members(DOMAIN data) \o << <<"}">> >>

\* json.load(f) of a preferences file: the dict of the members of its object.
\* Value gives the Python value of the first JSON value of the tokens and the
\* tokens after it: null is read None, true and false a bool, a string a str,
\* an array a list.
json_load(tokens) ==
    LET RECURSIVE Value(_), Array(_, _), Object(_, _)
        Value(rest) ==
            LET t == Head(rest)
            IN  CASE t[1] = "null" -> <<PyNone, Tail(rest)>>
                  [] t[1] = "true" -> << <<"bool", TRUE>>, Tail(rest)>>
                  [] t[1] = "false" -> << <<"bool", FALSE>>, Tail(rest)>>
                  [] t[1] = "string" -> << <<"str", t[2]>>, Tail(rest)>>
                  [] t[1] = "[" -> Array(Tail(rest), <<>>)
        Array(rest, items) ==
            IF Head(rest)[1] = "]" THEN << <<"list", items>>, Tail(rest)>>
            ELSE IF Head(rest)[1] = "," THEN Array(Tail(rest), items)
            ELSE LET item == Value(rest)
                 IN  Array(item[2], Append(items, item[1]))
        Object(rest, doc) ==
            IF Head(rest)[1] = "}" THEN doc
            ELSE IF Head(rest)[1] = "," THEN Object(Tail(rest), doc)
            ELSE LET member == Value(Tail(Tail(rest)))
                 IN  Object(member[2], SetItem(doc, Head(rest)[2], member[1]))
    IN  Object(Tail(tokens), <<>>)

\* Preferences.load: a file that exists is read and merged over self.data.
load(data, file) ==
    IF file = None THEN data ELSE DictUpdate(data, json_load(file[1]))

\* Preferences.save: the content of the preferences file after the dump.
save(data) == Some(json_dump(data))

\* Preferences.__init__ beside a preferences file (None: there is no file):
\* the defaults, then load(). The field history holds the values set so far,
\* those of the earlier runs that wrote the file included.
Preferences_init(file) ==
    [data |-> load(DEFAULT_PREFS, file), file |-> file,
     history |-> IF file = None THEN <<>> ELSE json_load(file[1])]

\* ReplaySortFilterProxy.__init__; use_and_logic is no field of the class, the
\* main window sets it from outside.
ProxyInit ==
    [search_text |-> <<>>, tag_filters |-> <<>>, recorded_filter |-> None,
     use_and_logic |-> FALSE]

\* The main window before any filter dialog was accepted: getattr(self,
\* 'current_tag_filter', []), getattr(self, 'use_and_logic', False) and
\* getattr(self, 'recorded_filter', None) give the defaults.
WindowInit ==
    [search_bar |-> <<>>, current_tag_filter |-> <<>>, use_and_logic |-> FALSE,
     recorded_filter |-> None]

\* setup_timers has started recycle_timer.
SweeperInit == [active |-> TRUE, failures |-> 0, uncaught |-> FALSE]

CallInit == [op |-> "none", arg |-> <<>>, out |-> <<>>]
RenameInit == [pc |-> "idle", counter |-> 0, new_path |-> <<>>]

\* The main window of a new catalog, with nothing typed, chosen or renamed.
InitBeside ==
    /\ table_rows = <<>>
    /\ proxy = ProxyInit
    /\ window = WindowInit
    /\ call = CallInit
    /\ files = {}
    /\ rename = RenameInit
    /\ sweeper = SweeperInit
    /\ db_info = <<>>
    /\ codes_read = {}
    /\ preferences = Preferences_init(None)

\* The store and its dialog; the table view, the filters and the rename flow
\* are left aside here.
Next ==
    \/ AddReplay /\ UNCHANGED beside
    \/ UpdateReplay /\ UNCHANGED beside
    \/ DeleteReplay /\ UNCHANGED beside
    \/ CleanupRecycleBin /\ UNCHANGED beside
    \/ ShowRecycleBin /\ UNCHANGED beside
    \/ RestoreSelected /\ UNCHANGED beside
    \/ DeletePermanently /\ UNCHANGED beside
    \/ EmptyRecycleBin /\ UNCHANGED beside
    \/ CloseRecycleBin /\ UNCHANGED beside
    \/ Tick /\ UNCHANGED beside

\* MainWindow.__init__ on a new catalog.
InitWindow == Init /\ InitBeside

Spec == InitWindow /\ [][Next]_allvars

\* ----------------------------------------- the table view and its filters

\* str.lower() and str.strip() on ASCII text.
Lower(c) == IF c \in 65..90 THEN c + 32 ELSE c
LowerText(s) == [i \in 1..Len(s) |-> Lower(s[i])]

\* The characters str.strip() and str.isspace() take for white space.
Whitespace == {9, 10, 11, 12, 13, 28, 29, 30, 31, 32}

Strip(s) ==
    LET kept == {i \in 1..Len(s) : s[i] \notin Whitespace}
    IN  IF kept = {} THEN <<>>
        ELSE SubSeq(s, CHOOSE i \in kept : \A j \in kept : i <= j,
                       CHOOSE i \in kept : \A j \in kept : i >= j)

Comma == 44

\* str.split(sep): the pieces between the separators, empty ones included.
RECURSIVE Split(_, _)
Split(s, sep) ==
    LET at == {i \in 1..Len(s) : s[i] = sep}
    IN  IF at = {} THEN <<s>>
        ELSE LET first == CHOOSE i \in at : \A j \in at : i <= j
             IN  <<SubSeq(s, 1, first - 1)>> \o Split(SubSeq(s, first + 1, Len(s)), sep)

\* needle in hay, for two str.
Contains(hay, needle) ==
    \E i \in 0..(Len(hay) - Len(needle)) : SubSeq(hay, i + 1, i + Len(needle)) = needle

\* sorted() of a set of str: ascending by code point.
RECURSIVE Sorted(_)
Sorted(texts) ==
    IF texts = {} THEN <<>>
    ELSE LET least == CHOOSE t \in texts : \A u \in texts : t = u \/ TextLess(t, u)
         IN  <<least>> \o Sorted(texts \ {least})

\* get_all_tags that reads the tags of the recycled records too.
get_all_tags_of_both_tables ==
    LET all == replays \o recycle_bin
        tagged == SelectSeq(all, LAMBDA r : r.tags # NULL /\ r.tags # <<>>)
        pieces == UNION {Elements(Split(tagged[i].tags, Comma)) : i \in 1..Len(tagged)}
        tags == {Strip(t) : t \in pieces} \ {<<>>}
    IN  Sorted(tags)

\* ReplayDatabase.get_all_tags
get_all_tags ==
    LET tagged == SelectSeq(replays, LAMBDA r : r.tags # NULL /\ r.tags # <<>>)
        pieces == UNION {Elements(Split(tagged[i].tags, Comma)) : i \in 1..Len(tagged)}
        tags == {Strip(t) : t \in pieces} \ {<<>>}
    IN  Sorted(tags)

\* value or "" for a fetched column.
OrEmpty(value) == IF value = NULL THEN <<>> ELSE value

\* ReplayDatabase.get_all_replays followed by ReplayTable.load_replays: the
\* items of one row, in the order of the header (File Name, Timestamp, UFC,
\* Recorded, Video Link, Description, Date Added, Tags); the Recorded item
\* holds a check state, the others a text.
load_replays(table) ==
    [i \in 1..Len(table) |->
        <<OrEmpty(table[i].file_name), OrEmpty(table[i].timestamp),
          OrEmpty(table[i].ufc), table[i].recorded = 1,
          OrEmpty(table[i].video_link), OrEmpty(table[i].extended_desc),
          OrEmpty(table[i].date_added), OrEmpty(table[i].tags)>>]

\* model.item(source_row, column): columns count from 0.
Item(source_row, column) == table_rows[source_row][column + 1]

\* ReplaySortFilterProxy.setSearchText, setTagFilter, setRecordedFilter: the
\* value each stores.
setSearchText(text) == Strip(LowerText(text))
setTagFilter(tags) == [i \in 1..Len(tags) |-> LowerText(tags[i])]
setRecordedFilter(recorded) == recorded

\* ReplayTable.apply_filters(search_text, tags, recorded) on a proxy p; an
\* argument the caller leaves out is "" for search_text, None for the others.
apply_filters(p, search_text, tags, recorded) ==
    [search_text |-> setSearchText(search_text),
     tag_filters |-> IF tags # None THEN setTagFilter(tags[1]) ELSE p.tag_filters,
     recorded_filter |->
        IF recorded # None THEN setRecordedFilter(recorded) ELSE p.recorded_filter,
     use_and_logic |-> p.use_and_logic]

\* ReplaySortFilterProxy.filterAcceptsRow, its three tests in turn.
SearchPasses(source_row) ==
    LET file_name == LowerText(Item(source_row, 0))
        description == LowerText(Item(source_row, 4))
        tags == LowerText(Item(source_row, 7))
    IN  proxy.search_text # <<>> =>
            \/ Contains(file_name, proxy.search_text)
            \/ Contains(description, proxy.search_text)
            \/ Contains(tags, proxy.search_text)

TagPasses(source_row) ==
    LET tags == LowerText(Item(source_row, 7))
        pieces == Split(tags, Comma)
        tag_list == [i \in 1..Len(pieces) |-> Strip(pieces[i])]
    IN  proxy.tag_filters # <<>> =>
            \E ft \in Elements(proxy.tag_filters) : ft \in Elements(tag_list)

RecordedPasses(source_row) ==
    LET recorded == Item(source_row, 3)
    IN  proxy.recorded_filter # None => recorded = proxy.recorded_filter[1]

filterAcceptsRow(source_row) ==
    SearchPasses(source_row) /\ TagPasses(source_row) /\ RecordedPasses(source_row)

\* What a user types into the search bar: "", "parry", "Parry " and "y".
SearchTexts ==
    {<<>>, <<112, 97, 114, 114, 121>>, <<80, 97, 114, 114, 121, 32>>, <<121>>}

\* Records of a catalog that was filled earlier: file name, video link,
\* description, recorded flag and tags of
\*   "a", "",      "Perfect Parry", 1, "y,x,y"
\*   "b", "parry", "",              0, " y , ,Z"
\*   "c", "",      "",              0, ""
CatalogRecords ==
    { <<<<97>>, <<>>, <<80, 101, 114, 102, 101, 99, 116, 32, 80, 97, 114, 114, 121>>,
        1, <<121, 44, 120, 44, 121>>>>,
      <<<<98>>, <<112, 97, 114, 114, 121>>, <<>>, 0, <<32, 121, 32, 44, 32, 44, 90>>>>,
      <<<<99>>, <<>>, <<>>, 0, <<>>>> }

\* The row of replays a record is after add_replay and the updates of its
\* recorded flag.
CatalogRow(uuid, record) ==
    InsertedRow(ReplaysColumns,
        <<"video_link", "file_name", "timestamp", "ufc",
          "extended_desc", "recorded", "date_added", "tags">>,
        <<record[2], record[1], <<116>>, GenerateUfc(uuid), record[3], record[4],
          Strftime(DateOf(0, 0)), record[5]>>)

\* The catalogs the window may open: at most two records, of different ufc.
Catalogs ==
    {<<>>}
    \cup {<<CatalogRow(u, r)>> : u \in Uuid4Prefixes, r \in CatalogRecords}
    \cup {<<CatalogRow(m[1], m[3]), CatalogRow(m[2], m[4])>> :
            m \in {n \in Uuid4Prefixes \X Uuid4Prefixes \X CatalogRecords \X CatalogRecords :
                     n[1] # n[2] /\ n[3] # n[4]}}

\* MainWindow.__init__ on an existing catalog: load_replays fills the table.
InitFilter ==
    /\ replays \in Catalogs
    /\ recycle_bin = <<>>
    /\ now = 0
    /\ dialog_open = FALSE
    /\ dialog_rows = <<>>
    /\ softDeleted = [u \in UFCS |-> <<>>]
    /\ last = Outcome("init", <<>>, "returned", NULL, 0)
    /\ table_rows = load_replays(replays)
    /\ proxy = ProxyInit
    /\ window = WindowInit
    /\ call = CallInit
    /\ files = {}
    /\ rename = RenameInit
    /\ sweeper = SweeperInit
    /\ db_info = <<>>
    /\ codes_read = {}
    /\ preferences = Preferences_init(None)

\* MainWindow.on_search_changed, the slot of the search bar's textChanged.
on_search_changed(search_text) ==
    /\ search_text # window.search_bar
    /\ window' = [window EXCEPT !.search_bar = search_text]
    /\ proxy' = apply_filters(proxy, search_text, None, None)
    /\ UNCHANGED <<vars, table_rows, call, files, rename, sweeper, aside>>

OnSearchChanged == \E search_text \in SearchTexts : on_search_changed(search_text)

\* TagFilterDialog.get_selected_tags: the checked tags, in the order of all_tags.
get_selected_tags(all_tags, checked) == UfcList(all_tags, checked)

\* MainWindow._show_tag_filter_dialog, the dialog accepted with these boxes
\* checked and this radio button; without tags there is no radio button and
\* get_use_and_logic gives False.
show_tag_filter_dialog(checked, radio_and) ==
    LET all_tags == get_all_tags
        selected == get_selected_tags(all_tags, checked)
        use_and == IF all_tags = <<>> THEN FALSE ELSE radio_and
    IN  /\ window' = [window EXCEPT !.current_tag_filter = selected,
                                    !.use_and_logic = use_and]
        /\ proxy' = apply_filters([proxy EXCEPT !.use_and_logic = use_and],
                                  window.search_bar, Some(selected), None)
        /\ UNCHANGED <<vars, table_rows, call, files, rename, sweeper, aside>>

ShowTagFilterDialog ==
    \E checked \in SUBSET (1..Len(get_all_tags)), radio_and \in BOOLEAN :
        show_tag_filter_dialog(checked, radio_and)

\* RecordedFilterDialog.get_recorded_filter for the three radio buttons.
RecordedChoices == {None, Some(TRUE), Some(FALSE)}

\* MainWindow._show_recorded_filter_dialog, the dialog accepted with this choice.
show_recorded_filter_dialog(choice) ==
    /\ window' = [window EXCEPT !.recorded_filter = choice]
    /\ proxy' = apply_filters(proxy, window.search_bar, None, choice)
    /\ UNCHANGED <<vars, table_rows, call, files, rename, sweeper, aside>>

ShowRecordedFilterDialog ==
    \E choice \in RecordedChoices : show_recorded_filter_dialog(choice)

\* MainWindow.on_filter_action('clear'): search_bar.clear() (whose textChanged
\* runs on_search_changed("")), then apply_filters() with no argument.
ClearFilters ==
    /\ window' = [window EXCEPT !.search_bar = <<>>]
    /\ proxy' = apply_filters(apply_filters(proxy, <<>>, None, None), <<>>, None, None)
    /\ UNCHANGED <<vars, table_rows, call, files, rename, sweeper, aside>>

\* MainWindow._delete_selected_permanent with one row of the view selected and
\* the question answered Yes: the record goes to the bin, the table is reloaded.
delete_selected(source_row) ==
    /\ filterAcceptsRow(source_row)
    /\ delete_replay(Item(source_row, 2), FALSE)
    /\ table_rows' = load_replays(replays')
    /\ UNCHANGED <<proxy, window, call, files, rename, sweeper, aside>>

DeleteSelected == \E source_row \in 1..Len(table_rows) : delete_selected(source_row)

NextFilter ==
    \/ OnSearchChanged
    \/ ShowTagFilterDialog
    \/ ShowRecordedFilterDialog
    \/ ClearFilters
    \/ DeleteSelected

SpecFilter == InitFilter /\ [][NextFilter]_allvars

\* ------------------------------------------------- the name sanitizer

\* Characters of the names tried: "A", " ", "-", "/" and "!".
NameChars == {65, 32, 45, 47, 33}
\* Length of the names tried, at most.
MaxNameLen == 4

\* "Chun-Li!! "
ChunLi == <<67, 104, 117, 110, 45, 76, 105, 33, 33, 32>>

Names == UNION {[1..n -> NameChars] : n \in 0..MaxNameLen} \cup {ChunLi}

\* The class [\\/:\*\?\"<>\|] of the pattern: \ / : * ? " < > |
InvalidChars == {92, 47, 58, 42, 63, 34, 60, 62, 124}

Underscore == 95
Hyphen == 45

\* The first substitution with "!" added to the class.
ReSubPunctuation(s) ==
    [i \in 1..Len(s) |-> IF s[i] \in InvalidChars \cup {33} THEN Underscore ELSE s[i]]

\* re.sub(r'[\\/:\*\?\"<>\|]', '_', s)
ReSubInvalid(s) == [i \in 1..Len(s) |-> IF s[i] \in InvalidChars THEN Underscore ELSE s[i]]

\* s.replace(" ", "-")
ReplaceSpaces(s) == [i \in 1..Len(s) |-> IF s[i] = 32 THEN Hyphen ELSE s[i]]

\* The second substitution left out.
Uncollapsed(s) == s

\* re.sub(r'-+', '-', s): every maximal run of hyphens becomes one hyphen.
RECURSIVE CollapseHyphens(_)
CollapseHyphens(s) ==
    IF s = <<>> THEN <<>>
    ELSE IF Head(s) = Hyphen /\ Len(s) > 1 /\ s[2] = Hyphen THEN CollapseHyphens(Tail(s))
    ELSE <<Head(s)>> \o CollapseHyphens(Tail(s))

\* s.strip('-')
StripHyphens(s) ==
    LET kept == {i \in 1..Len(s) : s[i] # Hyphen}
    IN  IF kept = {} THEN <<>>
        ELSE SubSeq(s, CHOOSE i \in kept : \A j \in kept : i <= j,
                       CHOOSE i \in kept : \A j \in kept : i >= j)

\* MainWindow._sanitize_character_name
sanitize_character_name(name) ==
    LET safe_name1 == ReSubInvalid(name)
        safe_name2 == ReplaceSpaces(LowerText(safe_name1))
        safe_name3 == CollapseHyphens(safe_name2)
    IN  StripHyphens(safe_name3)

\* MainWindow.on_add_replay: safe_char
on_add_replay_safe_char(filename_character) ==
    LET safe_char1 == ReSubInvalid(filename_character)
        safe_char2 == ReplaceSpaces(LowerText(safe_char1))
    IN  StripHyphens(CollapseHyphens(safe_char2))

\* RenameCharacterDialog._sanitize_character_name
dialog_sanitize_character_name(name) ==
    LET safe_name1 == ReSubInvalid(name)
        safe_name2 == ReplaceSpaces(LowerText(safe_name1))
        safe_name3 == CollapseHyphens(safe_name2)
        safe_name4 == StripHyphens(safe_name3)
    IN  safe_name4

\* FilenameCharacterPickerDialog._update_preview: safe_char
update_preview_safe_char(character) ==
    LET safe_char1 == ReSubInvalid(character)
        safe_char2 == ReplaceSpaces(LowerText(safe_char1))
    IN  StripHyphens(CollapseHyphens(safe_char2))

Applied(op, arg, out) == [op |-> op, arg |-> arg, out |-> out]

\* A character name is at hand; no sanitizer was applied to it yet.
InitSanitize ==
    /\ Init
    /\ table_rows = <<>>
    /\ proxy = ProxyInit
    /\ window = WindowInit
    /\ call \in {Applied("none", name, <<>>) : name \in Names}
    /\ files = {}
    /\ rename = RenameInit
    /\ sweeper = SweeperInit
    /\ db_info = <<>>
    /\ codes_read = {}
    /\ preferences = Preferences_init(None)

\* rename_selected_files sanitizes the rename character.
SanitizeCharacterName ==
    /\ call' = Applied("_sanitize_character_name", call.arg,
                       sanitize_character_name(call.arg))
    /\ UNCHANGED <<vars, table_rows, proxy, window, files, rename, sweeper, aside>>

\* on_add_replay sanitizes the filename character.
OnAddReplaySafeChar ==
    /\ call' = Applied("on_add_replay", call.arg, on_add_replay_safe_char(call.arg))
    /\ UNCHANGED <<vars, table_rows, proxy, window, files, rename, sweeper, aside>>

\* RenameCharacterDialog previews the file name.
DialogSanitizeCharacterName ==
    /\ call' = Applied("RenameCharacterDialog", call.arg,
                       dialog_sanitize_character_name(call.arg))
    /\ UNCHANGED <<vars, table_rows, proxy, window, files, rename, sweeper, aside>>

\* The character picker previews the file name.
UpdatePreviewSafeChar ==
    /\ call' = Applied("_update_preview", call.arg, update_preview_safe_char(call.arg))
    /\ UNCHANGED <<vars, table_rows, proxy, window, files, rename, sweeper, aside>>

NextSanitize ==
    \/ SanitizeCharacterName
    \/ OnAddReplaySafeChar
    \/ DialogSanitizeCharacterName
    \/ UpdatePreviewSafeChar

SpecSanitize == InitSanitize /\ [][NextSanitize]_allvars

\* ------------------------------------------------------ the renamed path

\* The largest number a file of the directory carries as its suffix.
MaxSuffix == 5

\* strftime("%m-%d-%Y_%H-%M-%S")
StrftimeFileName(date) ==
    Pad2(date[2]) \o Dash \o Pad2(date[3]) \o Dash \o Pad4(date[1]) \o <<Underscore>>
        \o Pad2(HourOfDay) \o Dash \o Pad2(0) \o Dash \o Pad2(0)

\* str(counter)
RECURSIVE Decimal(_)
Decimal(n) == IF n < 10 THEN <<Digit(n)>> ELSE Decimal(n \div 10) \o <<Digit(n % 10)>>

\* The file the user picked ("r.mp4"), its extension, the sanitized character
\* ("a"), the record's ufc and the catalog's code ("D").
OriginalFile == <<114, 46, 109, 112, 52>>
Extension == <<46, 109, 112, 52>>
Character == <<97>>
RenamedUfc == GenerateUfc(<<51, 102, 57, 97>>)
DbCode == <<68>>

\* f"{character}_{ufc}_UDC-{db_code}_{timestamp}"
Stem ==
    Character \o <<Underscore>> \o RenamedUfc \o <<Underscore, 85, 68, 67, 45>> \o DbCode
        \o <<Underscore>> \o StrftimeFileName(DateOf(now, 0))

\* new_filename before the loop, and in the loop's pass with this counter; the
\* directory is the one of the original file, so a path is told by its name.
Unsuffixed == Stem \o Extension
Suffixed(counter) == Stem \o <<Underscore>> \o Decimal(counter) \o Extension

\* The directory holds the original file and any of the names the loop may try.
InitRename ==
    /\ Init
    /\ table_rows = <<>>
    /\ proxy = ProxyInit
    /\ window = WindowInit
    /\ call = CallInit
    /\ files \in {taken \cup {OriginalFile} :
                    taken \in SUBSET ({Unsuffixed} \cup {Suffixed(k) : k \in 1..MaxSuffix})}
    /\ rename = RenameInit
    /\ sweeper = SweeperInit
    /\ db_info = <<>>
    /\ codes_read = {}
    /\ preferences = Preferences_init(None)

\* _generate_renamed_path with the counter starting at 0.
generate_renamed_path_from_zero ==
    /\ rename.pc = "idle"
    /\ rename' = [pc |-> "while", counter |-> 0, new_path |-> Unsuffixed]
    /\ UNCHANGED <<vars, table_rows, proxy, window, call, files, sweeper, aside>>

\* MainWindow._generate_renamed_path up to its loop.
generate_renamed_path ==
    /\ rename.pc = "idle"
    /\ rename' = [pc |-> "while", counter |-> 1, new_path |-> Unsuffixed]
    /\ UNCHANGED <<vars, table_rows, proxy, window, call, files, sweeper, aside>>

\* One pass of  while os.path.exists(new_path).
while_exists ==
    /\ rename.pc = "while"
    /\ rename.new_path \in files
    /\ rename' = [pc |-> "while", counter |-> rename.counter + 1,
                  new_path |-> Suffixed(rename.counter)]
    /\ UNCHANGED <<vars, table_rows, proxy, window, call, files, sweeper, aside>>

\* The loop ends: return new_path.
return_new_path ==
    /\ rename.pc = "while"
    /\ rename.new_path \notin files
    /\ rename' = [rename EXCEPT !.pc = "returned"]
    /\ UNCHANGED <<vars, table_rows, proxy, window, call, files, sweeper, aside>>

\* rename_selected_files: shutil.move(original_path, new_path).
shutil_move ==
    /\ rename.pc = "returned"
    /\ files' = (files \ {OriginalFile}) \cup {rename.new_path}
    /\ rename' = [rename EXCEPT !.pc = "moved"]
    /\ UNCHANGED <<vars, table_rows, proxy, window, call, sweeper, aside>>

NextRename ==
    \/ generate_renamed_path
    \/ while_exists
    \/ return_new_path
    \/ shutil_move

\* The loop runs in the thread of the handler: once entered, it goes on.
SpecRename ==
    /\ InitRename
    /\ [][NextRename]_allvars
    /\ WF_allvars(while_exists)
    /\ WF_allvars(return_new_path)

\* ------------------------------------------------- the retention sweeper

\* Sweeps that fail, at most.
MaxFailures == 2

\* cleanup_recycle_bin without its try: the exception leaves the slot, which
\* ends the program.
cleanup_recycle_bin_propagates ==
    /\ sweeper.failures < MaxFailures
    /\ sweeper' = [active |-> FALSE, failures |-> sweeper.failures + 1, uncaught |-> TRUE]
    /\ last' = Outcome("cleanup_recycle_bin", <<>>, "raised", NULL, 0)
    /\ UNCHANGED <<replays, recycle_bin, now, dialog_open, dialog_rows, softDeleted,
                   table_rows, proxy, window, call, files, rename, aside>>

\* MainWindow.cleanup_recycle_bin when auto_cleanup_recycle_bin raises (the
\* catalog cannot be opened or written): the transaction changes nothing, the
\* except clause prints the error.
cleanup_recycle_bin_raises ==
    /\ sweeper.failures < MaxFailures
    /\ sweeper' = [sweeper EXCEPT !.failures = sweeper.failures + 1]
    /\ last' = Outcome("cleanup_recycle_bin", <<>>, "absorbed", NULL, 0)
    /\ UNCHANGED <<replays, recycle_bin, now, dialog_open, dialog_rows, softDeleted,
                   table_rows, proxy, window, call, files, rename, aside>>

\* recycle_timer.timeout is emitted while the timer is active and the program runs.
recycle_timer_timeout == sweeper.active /\ ~sweeper.uncaught

\* The slot cleanup_recycle_bin run by the timer: the sweep returns, or raises.
SweepReturns == recycle_timer_timeout /\ CleanupRecycleBin /\ UNCHANGED beside
SweepRaises == recycle_timer_timeout /\ cleanup_recycle_bin_raises

NextSweeper ==
    \/ AddReplay /\ UNCHANGED beside
    \/ DeleteReplay /\ UNCHANGED beside
    \/ Tick /\ UNCHANGED beside
    \/ SweepReturns
    \/ SweepRaises

SpecSweeper == InitWindow /\ [][NextSweeper]_allvars

\* ------------------------------------------------- the preferences object

\* What the preferences meet. calls: the calls of Preferences.set in the main
\* window (the filename character 'Ryu' chosen, the name override 'Ken' typed
\* or cleared, dark mode switched); names, paths and lists: the arguments of
\* the other setters; files: the preferences file a start can find (none, one
\* written by this version, one of a version that knew dark_mode only).
PrefInputs ==
    [calls |-> {<<"filename_character", <<"str", <<82,121,117>> >> >>,
                <<"character_name_override", <<"str", <<75,101,110>> >> >>,
                <<"character_name_override", PyNone>>,
                <<"dark_mode", <<"bool", TRUE>> >>,
                <<"dark_mode", <<"bool", FALSE>> >>},
     names |-> {<<"str", <<82,121,117>> >>},
     paths |-> {PyNone, <<"str", <<>> >>, <<"str", <<112>> >>},
     lists |-> {<<"list", <<>> >>, <<"list", << <<"str", <<67,97,109,109,121>> >> >> >>},
     files |-> {None, save(DEFAULT_PREFS), save([dark_mode |-> <<"bool", TRUE>>])}]

\* The application starts: the window and Preferences(PREFERENCES_FILE).
InitPrefs ==
    /\ Init
    /\ table_rows = <<>>
    /\ proxy = ProxyInit
    /\ window = WindowInit
    /\ call = CallInit
    /\ files = {}
    /\ rename = RenameInit
    /\ sweeper = SweeperInit
    /\ db_info = <<>>
    /\ codes_read = {}
    /\ preferences \in {Preferences_init(file) : file \in PrefInputs.files}

\* The preferences after self.data[key] = value ... self.save() on the
\* document data.
Saved(data, values) ==
    [data |-> data, file |-> save(data),
     history |-> DictUpdate(preferences.history, values)]

set_unsaved(key, value) ==
    /\ preferences' = [Saved(SetItem(preferences.data, key, value),
                             SetItem(<<>>, key, value))
                         EXCEPT !.file = preferences.file]
    /\ UNCHANGED <<vars, table_rows, proxy, window, call, files, rename, sweeper,
                   db_info, codes_read>>

\* Preferences.set
set(key, value) ==
    /\ preferences' = Saved(SetItem(preferences.data, key, value),
                            SetItem(<<>>, key, value))
    /\ UNCHANGED <<vars, table_rows, proxy, window, call, files, rename, sweeper,
                   db_info, codes_read>>

\* Preferences.set_main_character; `if portrait_path:` is false for None and
\* for the empty str.
set_main_character(name, portrait_path) ==
    /\ LET named == SetItem(<<>>, "main_character", name)
           values == IF portrait_path[1] = "str" /\ portrait_path[2] # <<>>
                     THEN SetItem(named, "main_character_path", portrait_path)
                     ELSE named
       IN  preferences' = Saved(DictUpdate(preferences.data, values), values)
    /\ UNCHANGED <<vars, table_rows, proxy, window, call, files, rename, sweeper,
                   db_info, codes_read>>

\* Preferences.set_alt_characters
set_alt_characters(characters) ==
    /\ preferences' = Saved(SetItem(preferences.data, "alt_characters", characters),
                            SetItem(<<>>, "alt_characters", characters))
    /\ UNCHANGED <<vars, table_rows, proxy, window, call, files, rename, sweeper,
                   db_info, codes_read>>

\* Preferences.set_rename_character
set_rename_character(character) ==
    /\ preferences' = Saved(SetItem(preferences.data, "rename_character", character),
                            SetItem(<<>>, "rename_character", character))
    /\ UNCHANGED <<vars, table_rows, proxy, window, call, files, rename, sweeper,
                   db_info, codes_read>>

\* The application is started again: Preferences(PREFERENCES_FILE) beside the
\* file the last run left.
NewPreferences ==
    /\ preferences' = Preferences_init(preferences.file)
    /\ UNCHANGED <<vars, table_rows, proxy, window, call, files, rename, sweeper,
                   db_info, codes_read>>

NextPrefs ==
    \/ \E call_ \in PrefInputs.calls : set(call_[1], call_[2])
    \/ \E name \in PrefInputs.names, portrait_path \in PrefInputs.paths :
          set_main_character(name, portrait_path)
    \/ \E characters \in PrefInputs.lists : set_alt_characters(characters)
    \/ \E character \in PrefInputs.names \cup {PyNone} : set_rename_character(character)
    \/ NewPreferences

SpecPrefs == InitPrefs /\ [][NextPrefs]_allvars

\* ------------------------------------ the main window on an open catalog

\* str(uuid.uuid4())[:8] of the uuids drawn for a catalog code.
Uuid8Prefixes == {<<51,102,57,97,48,98,49,99>>, <<55,100,50,101,52,102,54,97>>}

\* What the user enters. forms: the data of the add form, without and with a
\* filename character ('Chun Li', 'Ryu'); names: the file name typed in the edit
\* dialog (" ", "d "); columns, find and replace: the entries of the find and
\* replace dialog ("a", "parry" and "", "b").
CatalogInputs ==
    [forms |-> {[filename_character |-> c, timestamp |-> <<116>>, video_link |-> <<108>>,
                 description |-> <<100>>, tags |-> <<65>>] :
                    c \in {<<>>, <<67,104,117,110,32,76,105>>, <<82,121,117>>}},
     names |-> {<<32>>, <<100,32>>},
     columns |-> {"File Name", "Description"},
     find |-> {<<97>>, <<112,97,114,114,121>>},
     replace |-> {<<>>, <<98>>}]

\* MainWindow.__init__ on an existing catalog.
InitCatalog ==
    /\ replays \in {catalog \in Catalogs :
                       Len(catalog) = 2 => SqlLess(catalog[1].ufc, catalog[2].ufc)}
    /\ recycle_bin = <<>>
    /\ now = 0
    /\ dialog_open = FALSE
    /\ dialog_rows = <<>>
    /\ softDeleted = [u \in UFCS |-> <<>>]
    /\ last = Outcome("init", <<>>, "returned", NULL, 0)
    /\ table_rows = load_replays(replays)
    /\ proxy = ProxyInit
    /\ window = WindowInit
    /\ call = CallInit
    /\ files = {}
    /\ rename = RenameInit
    /\ sweeper = SweeperInit
    /\ db_info = <<>>
    /\ codes_read = {}
    /\ preferences = Preferences_init(None)

\* MainWindow.on_add_replay with the question about a missing filename
\* character answered No. A call with a keyword add_replay does not accept
\* raises TypeError, which the handler's except reports; parameters are the
\* ones ReplayDatabase.add_replay accepts. call holds the file name and the ufc
\* the flow generated and the message box it ended with.
on_add_replay(data, uuid, uuid8) ==
    LET filename_character == data.filename_character
        safe_char == on_add_replay_safe_char(filename_character)
        ufc == GenerateUfc(uuid)
        db_code == IF db_info # <<>> THEN db_info[1] ELSE UpperText(uuid8)
        timestamp == StrftimeFileName(DateOf(now, 0))
        file_name == safe_char \o <<Underscore>> \o ufc \o <<95, 85, 68, 67, 45>>
                       \o db_code \o <<Underscore>> \o timestamp
        keywords == {"file_name", "timestamp", "video_link", "description", "tags", "ufc"}
        parameters == {"file_name", "timestamp", "video_link", "description", "tags"}
        shown(box) ==
            Applied("on_add_replay", <<>>,
                    [file_name |-> file_name, ufc |-> ufc, box |-> box])
    IN  /\ ~dialog_open
        /\ filename_character # <<>>
        /\ db_info' = IF db_info # <<>> THEN db_info ELSE Append(db_info, db_code)
        /\ codes_read' = codes_read \cup {<<"on_add_replay", db_code>>}
        /\ IF keywords \subseteq parameters
           THEN /\ add_replay(file_name, data.timestamp, data.video_link,
                              data.description, data.tags, uuid)
                /\ table_rows' = load_replays(replays')
                /\ call' = shown("Success")
           ELSE /\ call' = shown("Error")
                /\ UNCHANGED <<vars, table_rows>>
        /\ UNCHANGED <<proxy, window, files, rename, sweeper, preferences>>

get_database_code_inserts(uuid8) ==
    /\ ~dialog_open
    /\ db_info' = Append(db_info, UpperText(uuid8))
    /\ codes_read' = codes_read \cup {<<"_get_database_code", UpperText(uuid8)>>}
    /\ UNCHANGED <<vars, table_rows, proxy, window, call, files, rename, sweeper,
                   preferences>>

\* MainWindow._get_database_code, as rename_selected_files calls it.
get_database_code(uuid8) ==
    LET new_udc == UpperText(uuid8)
    IN  /\ ~dialog_open
        /\ db_info' = IF db_info # <<>> THEN db_info ELSE Append(db_info, new_udc)
        /\ codes_read' = codes_read
             \cup {<<"_get_database_code", IF db_info # <<>> THEN db_info[1] ELSE new_udc>>}
        /\ UNCHANGED <<vars, table_rows, proxy, window, call, files, rename, sweeper,
                       preferences>>

\* The add flow and the reading of the catalog code on a new catalog, as the
\* clock advances.
NextIdentity ==
    \/ \E data \in CatalogInputs.forms, uuid \in Uuid4Prefixes, uuid8 \in Uuid8Prefixes :
          on_add_replay(data, uuid, uuid8)
    \/ \E uuid8 \in Uuid8Prefixes : get_database_code(uuid8)
    \/ Tick /\ UNCHANGED beside

SpecIdentity == InitWindow /\ [][NextIdentity]_allvars

\* rename_selected_files after the file of a selected entry was moved: the new
\* name is handed to update_replay, and the table is loaded again.
rename_selected_files_update(source_row) ==
    /\ filterAcceptsRow(source_row)
    /\ update_replay(Item(source_row, 2), << <<"renamed_filename", Unsuffixed>> >>)
    /\ table_rows' = load_replays(replays')
    /\ UNCHANGED <<proxy, window, call, files, rename, sweeper, aside>>

\* ReplayTable._on_click on the Recorded column, whose check box the view has
\* switched, and MainWindow.on_recorded_toggled.
on_recorded_toggled(source_row) ==
    LET new_state == ~Item(source_row, 3)
    IN  /\ filterAcceptsRow(source_row)
        /\ table_rows' = [table_rows EXCEPT ![source_row][4] = new_state]
        /\ update_replay(Item(source_row, 2),
                         << <<"recorded", IF new_state THEN 1 ELSE 0>> >>)
        /\ UNCHANGED <<proxy, window, call, files, rename, sweeper, aside>>

\* ReplayTable._on_double_click, MainWindow.on_row_double_clicked and
\* EditReplayDialog.save_changes with the file name typed over: an empty name
\* is refused with a warning and the dialog is then cancelled.
on_row_double_clicked(source_row, file_name_edit) ==
    LET file_name == Strip(file_name_edit)
    IN  /\ filterAcceptsRow(source_row)
        /\ ~dialog_open
        /\ IF file_name = <<>>
           THEN UNCHANGED <<vars, table_rows>>
           ELSE /\ update_replay(Item(source_row, 2),
                      << <<"file_name", file_name>>,
                         <<"timestamp", Strip(Item(source_row, 1))>>,
                         <<"video_link", Strip(Item(source_row, 4))>>,
                         <<"tags", Strip(Item(source_row, 7))>>,
                         <<"extended_desc", Strip(Item(source_row, 5))>> >>)
                /\ table_rows' = load_replays(replays')
        /\ UNCHANGED <<proxy, window, call, files, rename, sweeper, aside>>

\* SQLite's X LIKE Y: % stands for any text, _ for one character, and ASCII
\* letters match in either case; NULL is like nothing.
Like(x, y) ==
    LET RECURSIVE Matches(_, _)
        Matches(i, j) ==
            IF j > Len(y) THEN i > Len(x)
            ELSE IF y[j] = 37 THEN Matches(i, j + 1) \/ (i <= Len(x) /\ Matches(i + 1, j))
            ELSE /\ i <= Len(x)
                 /\ y[j] = 95 \/ Lower(y[j]) = Lower(x[i])
                 /\ Matches(i + 1, j + 1)
    IN  x # NULL /\ Matches(1, 1)

\* SQLite's REPLACE(X, Y, Z): every occurrence of Y in X, compared byte by
\* byte, becomes Z; an empty Y leaves X as it is.
Replace(x, y, z) ==
    LET RECURSIVE From(_)
        From(i) ==
            IF i > Len(x) THEN <<>>
            ELSE IF i + Len(y) - 1 <= Len(x) /\ SubSeq(x, i, i + Len(y) - 1) = y
                 THEN z \o From(i + Len(y))
                 ELSE <<x[i]>> \o From(i + 1)
    IN  IF y = <<>> THEN x ELSE From(1)

\* MainWindow._show_find_replace_dialog and FindReplaceDialog._apply_replace
\* with the question answered Yes: _get_column_name, _count_matches,
\* _perform_replace, the count in the message, accept() and the reload of the
\* table.
apply_replace(column, find_input, replace_input) ==
    LET find_text == Strip(find_input)
        replace_text == Strip(replace_input)
        column_name ==
            CASE column = "File Name" -> "file_name"
              [] column = "Timestamp" -> "timestamp"
              [] column = "Video Link" -> "video_link"
              [] column = "Description" -> "extended_desc"
              [] column = "Tags" -> "tags"
        pattern == <<37>> \o find_text \o <<37>>
        matched == {i \in 1..Len(replays) : Like(replays[i][column_name], pattern)}
        count == Cardinality(matched)
    IN  /\ ~dialog_open
        /\ find_text # <<>>
        /\ count # 0
        /\ replays' = [i \in 1..Len(replays) |->
                          IF i \in matched
                          THEN [replays[i] EXCEPT
                                  ![column_name] = Replace(@, find_text, replace_text)]
                          ELSE replays[i]]
        /\ call' = Applied("_apply_replace", <<>>, count)
        /\ table_rows' = load_replays(replays')
        /\ UNCHANGED <<recycle_bin, now, dialog_open, dialog_rows, softDeleted, last,
                       proxy, window, files, rename, sweeper, aside>>

\* MainWindow._show_recycle_bin after dialog.exec(): the Close button accepts
\* the dialog, the window's close button and Escape reject it, and the table
\* is loaded again after an accepted dialog only.
show_recycle_bin_returns(accepted) ==
    /\ CloseRecycleBin
    /\ table_rows' = IF accepted THEN load_replays(replays) ELSE table_rows
    /\ UNCHANGED <<proxy, window, call, files, rename, sweeper, aside>>

NextCatalog ==
    \/ \E source_row \in 1..Len(table_rows) : rename_selected_files_update(source_row)
    \/ \E source_row \in 1..Len(table_rows) : on_recorded_toggled(source_row)
    \/ \E source_row \in 1..Len(table_rows), file_name_edit \in CatalogInputs.names :
          on_row_double_clicked(source_row, file_name_edit)
    \/ \E column \in CatalogInputs.columns, find_input \in CatalogInputs.find,
          replace_input \in CatalogInputs.replace :
          apply_replace(column, find_input, replace_input)
    \/ DeleteSelected
    \/ ShowRecycleBin /\ UNCHANGED beside
    \/ RestoreSelected /\ UNCHANGED beside
    \/ \E accepted \in BOOLEAN : show_recycle_bin_returns(accepted)

SpecCatalog == InitCatalog /\ [][NextCatalog]_allvars

\* ---------------------------------------------------------------- claims

ActiveRow(u) == replays[CHOOSE i \in RowsOf(replays, u) : TRUE]

\* C1: every ufc occurs in at most one row of the union of replays and
\* recycle_bin: no record is in both tables and no two records share a ufc.
C1_UfcUniqueAcrossCollections ==
    \A u \in UFCS :
        Cardinality(RowsOf(replays, u)) + Cardinality(RowsOf(recycle_bin, u)) <= 1

\* C2: a soft-delete of an active record followed, with no other operation on
\* the store in between, by the restore of its ufc leaves one active row of that
\* ufc, equal in every column to the row before the soft-delete, and no
\* recycled row of that ufc.
C2_SoftDeleteRestoreRoundTrip ==
    [][\A u \in UFCS :
          ( /\ last = Outcome("delete_replay", <<u>>, "returned", NULL, 1)
            /\ \E selected \in Selections :
                  /\ UfcList(dialog_rows, selected) = <<u>>
                  /\ restore_selected(selected) )
          => /\ Cardinality(RowsOf(replays', u)) = 1
             /\ \A i \in RowsOf(replays', u) : replays'[i] = softDeleted[u][1]
             /\ RowsOf(recycle_bin', u) = {}]_vars

\* C3: one sweep removes exactly the recycled rows whose soft-delete time is
\* strictly earlier than now minus 30 days, and changes no other row.
C3_SweepRemovesExactlyExpired ==
    [][CleanupRecycleBin
          => /\ recycle_bin' = SelectSeq(recycle_bin,
                    LAMBDA r : ~(softDeleted[r.ufc][2] < now - SweepDays))
             /\ replays' = replays]_vars

\* C4: a sweep that runs less than 30 days after the soft-delete of a record
\* leaves that record in the bin.
C4_SweepKeepsYoungRows ==
    [][CleanupRecycleBin
          => \A i \in 1..Len(recycle_bin) :
                now - softDeleted[recycle_bin[i].ufc][2] < SweepDays
                    => \E j \in 1..Len(recycle_bin') : recycle_bin'[j] = recycle_bin[i]]_vars

\* C5: update with a recognized field and a ufc no active row has fails with a
\* not-found error and changes nothing.
C5_UpdateOfAbsentFails ==
    [][\A u \in UFCS, kwargs \in UpdateInputs :
          (update_replay(u, kwargs) /\ Updates(kwargs) # <<>> /\ u \notin Ufcs(replays))
          => /\ last'.outcome = "NotFoundError"
             /\ UNCHANGED <<replays, recycle_bin>>]_vars

\* C6: soft_delete of a ufc no active row has fails with a not-found error and
\* leaves both tables unchanged.
C6_SoftDeleteOfAbsentFails ==
    [][\A u \in UFCS :
          (delete_replay(u, FALSE) /\ u \notin Ufcs(replays))
          => /\ last'.outcome = "NotFoundError"
             /\ UNCHANGED <<replays, recycle_bin>>]_vars

\* C7: a confirmed restore of a ufc the bin has no row of (a sweep removed it
\* after the dialog listed it) fails with a not-found error, and is not
\* reported as restored.
C7_RestoreOfAbsentFails ==
    [][\A selected \in Selections :
          ( /\ restore_selected(selected)
            /\ \E u \in Elements(UfcList(dialog_rows, selected)) : u \notin Ufcs(recycle_bin) )
          => /\ last'.outcome = "NotFoundError"
             /\ last'.count < Len(UfcList(dialog_rows, selected))]_vars

\* C8: add_replay whose generated code is the ufc of an active or of a
\* recycled row raises a duplicate-identifier error and changes neither table.
C8_CreateRejectsDuplicate ==
    [][\A f \in FileNames, t \in Timestamps, l \in VideoLinks, d \in Descriptions,
          g \in TagsInputs, u \in Uuid4Prefixes :
          ( /\ add_replay(f, t, l, d, g, u)
            /\ GenerateUfc(u) \in Ufcs(replays) \cup Ufcs(recycle_bin) )
          => /\ last'.outcome = "IntegrityError"
             /\ UNCHANGED <<replays, recycle_bin>>]_vars

\* C9: an add_replay that returns has added exactly one row to replays, after
\* the rows it had, holding the supplied file name, timestamp, link,
\* description and tags, recorded = 0 and date_added = the time of the call;
\* it returns that row's ufc and leaves recycle_bin unchanged.
C9_CreateAddsOneRow ==
    [][\A f \in FileNames, t \in Timestamps, l \in VideoLinks, d \in Descriptions,
          g \in TagsInputs, u \in Uuid4Prefixes :
          (add_replay(f, t, l, d, g, u) /\ last'.outcome = "returned")
          => /\ Len(replays') = Len(replays) + 1
             /\ SubSeq(replays', 1, Len(replays)) = replays
             /\ LET row == replays'[Len(replays')]
                IN  /\ row.file_name = f
                    /\ row.timestamp = t
                    /\ row.video_link = l
                    /\ row.extended_desc = d
                    /\ row.tags = g
                    /\ row.recorded = 0
                    /\ row.date_added = Strftime(DateOf(now, 0))
                    /\ row.ufc = last'.ret
                    /\ row.ufc \in UFCS
             /\ recycle_bin' = recycle_bin]_vars

\* C9 happens: an add_replay returned while another active row existed.
C9_Witness ==
    /\ last.op = "add_replay"
    /\ last.outcome = "returned"
    /\ Len(replays) = 2
    /\ replays[2].ufc = last.ret

\* C10: the soft-delete of an active record removes its ufc from replays and
\* leaves exactly one recycled row of it, whose deleted_date is the time of
\* the call and whose other columns are those of the active row.
C10_SoftDeleteMovesRow ==
    [][\A u \in UFCS :
          (delete_replay(u, FALSE) /\ u \in Ufcs(replays))
          => /\ u \notin Ufcs(replays')
             /\ Cardinality(RowsOf(recycle_bin', u)) = 1
             /\ \A i \in RowsOf(recycle_bin', u) :
                   /\ recycle_bin'[i].deleted_date = Strftime(DateOf(now, 0))
                   /\ \A c \in ReplaysColumns : recycle_bin'[i][c] = ActiveRow(u)[c]]_vars

\* The fields the catalog's update operation is specified to edit.
EditableFields ==
    {"file_name", "timestamp", "video_link", "extended_desc", "recorded", "tags",
     "renamed_filename"}

\* C11: update_replay called with no recognized field (no keyword argument, or
\* only names that are no editable field) returns without error and leaves
\* every row of replays and of recycle_bin as it was, whatever the ufc.
C11_UpdateWithoutRecognizedFieldIsNoOp ==
    [][\A u \in UFCS, kwargs \in UpdateInputs :
          (/\ update_replay(u, kwargs)
           /\ \A i \in 1..Len(kwargs) : kwargs[i][1] \notin EditableFields)
          => (/\ last'.outcome = "returned"
              /\ replays' = replays
              /\ recycle_bin' = recycle_bin)]_vars

\* C11 happens: an update_replay that built no SET clause returned for the ufc
\* of an active row that carries tags.
C11_Witness ==
    /\ last.op = "update_replay"
    /\ last.count = 0
    /\ \E i \in RowsOf(replays, last.ufcs[1]) : replays[i].tags = <<65>>

\* C12: update_replay(ufc, renamed_filename=x) on an active record stores x as
\* that record's renamed_filename (the call rename_selected_files makes after
\* it has moved the file).
C12_RenamedFilenameIsStored ==
    [][\A u \in UFCS, kwargs \in UpdateInputs :
          (/\ update_replay(u, kwargs)
           /\ Len(kwargs) = 1 /\ kwargs[1][1] = "renamed_filename"
           /\ u \in Ufcs(replays))
          => \A i \in RowsOf(replays', u) : replays'[i].renamed_filename = kwargs[1][2]]_vars

\* The trimmed non-empty pieces between the commas of a tags text: a piece
\* starts after a comma (or at the start) and ends before one (or at the
\* end), and loses the white space on its two sides.
TrimmedSegments(text) ==
    {SubSeq(text, p[1], p[2]) :
        p \in {q \in (1..Len(text)) \X (1..Len(text)) :
                 /\ q[1] <= q[2]
                 /\ text[q[1]] \notin Whitespace /\ text[q[2]] \notin Whitespace
                 /\ \A k \in q[1]..q[2] : text[k] # Comma
                 /\ \E a \in 1..q[1] :
                        /\ a = 1 \/ text[a - 1] = Comma
                        /\ \A k \in a..(q[1] - 1) : text[k] \in Whitespace
                 /\ \E b \in q[2]..Len(text) :
                        /\ b = Len(text) \/ text[b + 1] = Comma
                        /\ \A k \in (q[2] + 1)..b : text[k] \in Whitespace}}

\* C13: get_all_tags returns, in ascending order and without duplicates,
\* exactly the non-empty trimmed comma-separated segments of the tags of the
\* active records; what only a recycled record carries is not returned.
C13_TagsAreSortedSegmentsOfActiveRecords ==
    LET out == get_all_tags
    IN  /\ \A i, j \in 1..Len(out) : i < j => TextLess(out[i], out[j])
        /\ Elements(out) =
              UNION {TrimmedSegments(replays[i].tags) :
                        i \in {k \in 1..Len(replays) : replays[k].tags # NULL}}

\* C13 happens: the tag dialog was accepted with tags of get_all_tags checked
\* while the one active record has the tags "y,x,y" (two tags, one of them
\* twice and not in order) and a recycled record carries a tags text that
\* get_all_tags does not return.
C13_Witness ==
    /\ window.current_tag_filter # <<>>
    /\ Elements(window.current_tag_filter) \subseteq Elements(get_all_tags)
    /\ Len(replays) = 1 /\ replays[1].tags = <<121, 44, 120, 44, 121>>
    /\ get_all_tags = <<<<120>>, <<121>>>>
    /\ \E i \in 1..Len(recycle_bin) :
          /\ recycle_bin[i].tags # <<>>
          /\ recycle_bin[i].tags \notin Elements(get_all_tags)

\* C14: with a non-empty search text q a loaded record passes the free-text
\* test exactly if the lower-cased q is part of its lower-cased file name, of
\* its lower-cased description or of its lower-cased tags.
C14_SearchMatchesNameDescriptionTags ==
    \A source_row \in 1..Len(table_rows) :
        LET q == LowerText(window.search_bar)
        IN  window.search_bar # <<>> =>
               (SearchPasses(source_row) <=>
                   \/ Contains(LowerText(Item(source_row, 0)), q)
                   \/ Contains(LowerText(Item(source_row, 5)), q)
                   \/ Contains(LowerText(Item(source_row, 7)), q))

\* C15: with a non-empty set F of filter tags accepted in the tag dialog, a
\* record passes the tag test in ALL mode only if every tag of F is among its
\* tags, and in ANY mode exactly if at least one is (tags compared in lower
\* case, as the table compares them).
C15_TagFilterFollowsMode ==
    \A source_row \in 1..Len(table_rows) :
        LET F == {LowerText(t) : t \in Elements(window.current_tag_filter)}
            tag_set == TrimmedSegments(LowerText(Item(source_row, 7)))
        IN  F # {} =>
               IF window.use_and_logic
               THEN TagPasses(source_row) => F \subseteq tag_set
               ELSE TagPasses(source_row) <=> F \cap tag_set # {}

\* C16: after the recorded-status dialog was accepted with a choice, the table
\* filters by it: with "only recorded" or "only not recorded" exactly the
\* records of that flag pass the recorded test, with "show all" every record
\* does, whatever was chosen before.
C16_RecordedFilterFollowsChoice ==
    \A source_row \in 1..Len(table_rows) :
        RecordedPasses(source_row) <=>
            \/ window.recorded_filter = None
            \/ Item(source_row, 3) = window.recorded_filter[1]

\* The five steps on a name, position by position: each character is mapped
\* (one of \ / : * ? " < > | to an underscore, a capital to its small letter,
\* a space to a hyphen); of every run of hyphens only the first stays; the
\* hyphens with nothing but hyphens on one side go.
FiveSteps(name) ==
    LET under(c) == IF c \in {92, 47, 58, 42, 63, 34, 60, 62, 124} THEN 95 ELSE c
        small(c) == IF c >= 65 /\ c <= 90 THEN c + 32 ELSE c
        hyphen(c) == IF c = 32 THEN 45 ELSE c
        mapped == [i \in 1..Len(name) |-> hyphen(small(under(name[i])))]
        first == {i \in 1..Len(name) : mapped[i] # 45 \/ i = 1 \/ mapped[i - 1] # 45}
        inner == {i \in first : /\ \E j \in 1..i : mapped[j] # 45
                                /\ \E k \in i..Len(name) : mapped[k] # 45}
    IN  UfcList(mapped, inner)

\* C17: _sanitize_character_name and each inline copy of it (the add flow and
\* the two preview dialogs) return, for every name, the result of the five
\* steps in their order; the four agree on every name.
C17_SanitizerCopiesApplyFiveSteps ==
    call.op # "none" =>
        /\ call.out = FiveSteps(call.arg)
        /\ sanitize_character_name(call.arg) = call.out
        /\ on_add_replay_safe_char(call.arg) = call.out
        /\ dialog_sanitize_character_name(call.arg) = call.out
        /\ update_preview_safe_char(call.arg) = call.out

\* C17 happens: the picker's preview sanitized "/A -", a name on which every
\* step acts (the result is "_a").
C17_Witness ==
    /\ call.op = "_update_preview"
    /\ call.arg = <<47, 65, 32, 45>>
    /\ call.out = <<95, 97>>

\* C18 as stated: _sanitize_character_name makes "chun-li" of "Chun-Li!! ".
C18_ChunLiYieldsChunLi ==
    (call.op = "_sanitize_character_name" /\ call.arg = ChunLi)
        => call.out = <<99, 104, 117, 110, 45, 108, 105>>

HowMany(s, c) == Cardinality({i \in 1..Len(s) : s[i] = c})

\* C18, amended: _sanitize_character_name leaves every "!" of a name in place
\* and returns nothing that starts or ends with a space or a hyphen; of
\* "Chun-Li!! " it makes "chun-li!!".
C18_ExclamationMarksAreKept ==
    call.op = "_sanitize_character_name" =>
        /\ HowMany(call.out, 33) = HowMany(call.arg, 33)
        /\ call.out # <<>> =>
              {call.out[1], call.out[Len(call.out)]} \cap {32, 45} = {}
        /\ call.arg = ChunLi => call.out = <<99, 104, 117, 110, 45, 108, 105, 33, 33>>

\* C18 happens: _sanitize_character_name was applied to "Chun-Li!! ".
C18_Witness ==
    /\ call.op = "_sanitize_character_name"
    /\ call.arg = ChunLi
    /\ call.out # <<>>

\* C19: the path _generate_renamed_path returns does not exist when it
\* returns; it is the template path when that one is free, else the template
\* path with the suffix _k of the smallest k >= 1 whose path is free; and the
\* loop, once entered, ends.
C19_RenamedPathIsFirstFree ==
    /\ [](rename.pc = "returned" =>
            /\ rename.new_path \notin files
            /\ Unsuffixed \notin files => rename.new_path = Unsuffixed
            /\ Unsuffixed \in files =>
                  \E k \in 1..Cardinality(files) :
                      /\ rename.new_path = Suffixed(k)
                      /\ \A j \in 1..(k - 1) : Suffixed(j) \in files)
    /\ (rename.pc = "while" ~> rename.pc = "returned")

\* C19 happens: the template path and those of the suffixes _1 and _2 exist,
\* the one of _4 too, and _generate_renamed_path returned the path of _3.
C19_Witness ==
    /\ rename.pc = "returned"
    /\ {Unsuffixed, Suffixed(1), Suffixed(2), Suffixed(4)} \subseteq files
    /\ rename.new_path = Suffixed(3)

\* C20: when the store raises in a sweep, cleanup_recycle_bin absorbs the
\* failure: no exception leaves the slot, the timer stays active and nothing
\* of the store changes; and however many sweeps have failed, the timer's next
\* firing can run the sweep again.
C20_SweepFailureIsAbsorbed ==
    /\ [][SweepRaises =>
            /\ sweeper'.active /\ ~sweeper'.uncaught
            /\ replays' = replays /\ recycle_bin' = recycle_bin]_allvars
    /\ [](sweeper.active /\ ~sweeper.uncaught /\ ENABLED SweepReturns)

\* C20 happens: after two sweeps that failed, a sweep ran and purged a row.
C20_Witness ==
    /\ sweeper.failures = 2
    /\ last.op = "cleanup_recycle_bin"
    /\ last.outcome = "returned"
    /\ last.count = 1

\* The preferences file of p exists and holds exactly the in-memory document,
\* and a fresh Preferences beside it holds the defaults overridden by every
\* value set so far.
FileHoldsDocument(p) ==
    /\ p.file # None
    /\ json_load(p.file[1]) = p.data
    /\ Preferences_init(p.file).data = DictUpdate(DEFAULT_PREFS, p.history)

C25_AddStoresTheGeneratedName ==
    [][\A data \in CatalogInputs.forms, uuid \in Uuid4Prefixes, uuid8 \in Uuid8Prefixes :
          on_add_replay(data, uuid, uuid8) =>
              /\ Len(replays') = Len(replays) + 1
              /\ \A row \in {replays'[Len(replays')]} :
                    /\ row.ufc = GenerateUfc(uuid)
                    /\ row.file_name =
                         on_add_replay_safe_char(data.filename_character)
                           \o <<Underscore>> \o row.ufc \o <<95, 85, 68, 67, 45>>
                           \o db_info'[1] \o <<Underscore>>
                           \o StrftimeFileName(DateOf(now, 0))
      ]_allvars

\* C23: soft_delete and restore are all-or-nothing. A soft-delete either
\* leaves both collections exactly as they were, which it does whenever the
\* recycled collection already holds the ufc, or moves the record, which is
\* then in the recycled collection only; a restore of selected items either
\* leaves both collections as they were, which it does whenever the active
\* collection holds the ufc of a selected recycled item, or moves every
\* selected item, which is then in the active collection only.
C23_MovesAreAllOrNothing ==
    [][/\ \A ufc \in UFCS :
            delete_replay(ufc, FALSE) =>
                /\ ufc \in Ufcs(recycle_bin) =>
                       replays' = replays /\ recycle_bin' = recycle_bin
                /\ \/ replays' = replays /\ recycle_bin' = recycle_bin
                   \/ /\ ufc \in Ufcs(replays) /\ ufc \notin Ufcs(replays')
                      /\ ufc \in Ufcs(recycle_bin')
                      /\ Len(replays') = Len(replays) - 1
                      /\ Len(recycle_bin') = Len(recycle_bin) + 1
       /\ \A selected \in Selections :
            restore_selected(selected) =>
                LET moved == Elements(UfcList(dialog_rows, selected)) \cap Ufcs(recycle_bin)
                IN  /\ moved \cap Ufcs(replays) # {} =>
                           replays' = replays /\ recycle_bin' = recycle_bin
                    /\ \/ replays' = replays /\ recycle_bin' = recycle_bin
                       \/ /\ moved \cap Ufcs(recycle_bin') = {}
                          /\ moved \subseteq Ufcs(replays')
                          /\ Len(replays') = Len(replays) + Cardinality(moved)
                          /\ Len(recycle_bin') = Len(recycle_bin) - Cardinality(moved)
      ]_vars

\* Reached: a soft-delete of a ufc the recycled collection already held has
\* failed on the insert, and the record is still active.
C23_Witness ==
    /\ last.op = "delete_replay"
    /\ last.outcome = "IntegrityError"
    /\ last.ufcs[1] \in Ufcs(replays) \cap Ufcs(recycle_bin)

\* The ufc and date_added of every record of the two collections.
Identities(active, bin) ==
    {<<active[i].ufc, active[i].date_added>> : i \in 1..Len(active)}
        \cup {<<bin[i].ufc, bin[i].date_added>> : i \in 1..Len(bin)}

\* C24: no operation of the main window changes the ufc or the date_added of
\* an existing record: over every recorded toggle, edit, find/replace, rename
\* update, soft-delete and restore, the records of the two collections keep
\* the ufc and the date_added they had.
C24_UfcAndDateAddedAreKept ==
    [][Identities(replays', recycle_bin') = Identities(replays, recycle_bin)]_allvars

\* Reached: the record "a" of the catalog was unchecked, had "a" removed from
\* its description, was renamed "d" in the edit dialog, soft-deleted and
\* restored (its tags are now the deletion date), and still has its ufc and
\* its date_added.
C24_Witness ==
    \E i \in 1..Len(replays) :
        /\ replays[i].file_name = <<100>>
        /\ replays[i].extended_desc = <<80, 101, 114, 102, 101, 99, 116, 32, 80, 114, 114, 121>>
        /\ replays[i].recorded = 0
        /\ replays[i].tags = Strftime(DateOf(0, 0))
        /\ replays[i].ufc \in UFCS
        /\ replays[i].date_added = Strftime(DateOf(0, 0))
        /\ last.op = "_restore_selected"

\* C26: every recycled record that is neither restored nor purged by hand is
\* removed by the Retention Sweeper once the time has advanced beyond 30 days
\* after its soft-delete, whatever its field values: a sweep that runs more
\* than 30 days after the soft-delete of a record of the bin removes it.
C26_SweepRemovesEveryOldRecord ==
    [][CleanupRecycleBin
          => \A i \in 1..Len(recycle_bin) :
                now - softDeleted[recycle_bin[i].ufc][2] > SweepDays
                    => recycle_bin[i].ufc \notin Ufcs(recycle_bin')]_vars

\* C27: whenever a user operation that changes the active collection has
\* completed and control is back in the main window (no dialog is open), the
\* source rows of the main table are exactly the records get_all_replays
\* returns at that moment, however the recycle-bin dialog was closed.
C27_TableShowsTheActiveRecords ==
    ~dialog_open => table_rows = load_replays(replays)

\* C28: after the 'Clear Filters' action no search text, no tag filter and no
\* recorded-status filter is in effect, and every loaded record is visible in
\* the table, whatever filters were set before.
C28_ClearFiltersShowsEveryRecord ==
    [][ClearFilters
          => /\ proxy'.search_text = <<>>
             /\ proxy'.tag_filters = <<>>
             /\ proxy'.recorded_filter = None
             /\ \A source_row \in 1..Len(table_rows) : filterAcceptsRow(source_row)'
      ]_allvars

\* C29: when a find/replace is confirmed, the number of entries it reports as
\* replaced is the number of active records whose selected column value has
\* changed, for every find text, replace text and letter case of the stored
\* values.
C29_ReportedCountIsChangedCount ==
    [][\A column \in CatalogInputs.columns, find_input \in CatalogInputs.find,
          replace_input \in CatalogInputs.replace :
          apply_replace(column, find_input, replace_input) =>
              call'.out = Cardinality({i \in 1..Len(replays) : replays'[i] # replays[i]})
      ]_allvars

\* C30: every active record has a non-empty file_name after any sequence of
\* add, edit and find/replace operations made through the application.
C30_FileNameIsNeverEmpty ==
    \A i \in 1..Len(replays) : replays[i].file_name # NULL /\ replays[i].file_name # <<>>

====
